---- MODULE Spec2Model ----
(***************************************************************************)
(* Model of src/napi/node_api_async.c: the N-API asynchronous work bridge. *)
(*                                                                         *)
(* The engine thread creates, queues, cancels and deletes work requests;   *)
(* the thread pool runs iotjs_uv_work_cb on a worker thread and the event  *)
(* loop runs iotjs_uv_work_after_cb on the thread that owns the loop.      *)
(*                                                                         *)
(* The heap is modelled explicitly: a uv_work_t lives at an address h, an  *)
(* iotjs_async_work_t at an address a, and work_req->data links the two.   *)
(* free() keeps the contents of a freed block (reqData, aw) so that a read *)
(* of freed storage can see the stale bytes.                               *)
(***************************************************************************)
EXTENDS Integers, FiniteSets, Sequences, TLC

\* ------------------------------------------------------------------ bounds
\* successful napi_create_async_work calls in one behaviour
MaxCreates == 2
\* worker threads of the pool
MaxWorkers == 2
\* successful napi_queue_async_work calls on one request
MaxQueue == 2

\* --------------------------------------------------------------- constants
NULL == 0
\* libuv's status of a cancelled request (-ECANCELED)
UV_ECANCELED == -125
\* the thread that runs the environment's event loop
EngineThread == 0

Handles == 1..MaxCreates
Works == 1..MaxCreates
Workers == 1..MaxWorkers
Threads == {EngineThread} \cup Workers

\* values a caller passes for execute / complete / data / result
ExecuteArgs == {"NULL", "execute_fn"}
CompleteArgs == {"NULL", "complete_fn"}
DataArgs == {NULL, 1}
ResultArgs == {"NULL", "result_slot"}
Env == "env"

\* pool statuses a done slot can be handed
PoolStatusInputs == {UV_ECANCELED - 1, UV_ECANCELED, UV_ECANCELED + 1} \cup (-2..2)

VARIABLES
  reqLive,        \* addresses of allocated uv_work_t blocks
  reqData,        \* uv_work_t.data at each address (kept after free)
  awLive,         \* addresses of allocated iotjs_async_work_t blocks
  aw,             \* iotjs_async_work_t contents at each address (kept after free)
  wstate,         \* the pool's view of each request
  reqLoop,        \* the loop (named by its thread) a request was submitted to
  thread,         \* what each thread is executing
  scopeDepth,     \* jerryx handle scopes opened and not yet closed
  slot,           \* the caller's napi_async_work output variable
  ret,            \* the last API call and the napi_status it returned
  held,           \* handles returned to the caller and not yet passed to delete
  nCreated,       \* successful creates so far
  queued,         \* successful queue calls per request
  execCount,      \* invocations of execute per request
  completeCount,  \* invocations of complete per request
  lastStatus,     \* napi_status last handed to complete per request
  execArgs,       \* arguments last handed to execute per request
  completeArgs,   \* arguments last handed to complete per request
  cancelOk,       \* a cancel call on the request returned napi_ok
  submits,        \* uv_queue_work calls made by the last API call
  supplied,       \* the arguments create was given for each request
  ub,             \* freed storage has been read
  crashed         \* the process aborted

heapVars == <<reqLive, reqData, awLive, aw>>
poolVars == <<wstate, reqLoop>>
callVars == <<slot, ret, held, nCreated, queued, cancelOk, submits, supplied>>
obsVars == <<execCount, completeCount, lastStatus, execArgs, completeArgs>>
vars == <<reqLive, reqData, awLive, aw, wstate, reqLoop, thread, scopeDepth,
          slot, ret, held, nCreated, queued, execCount, completeCount,
          lastStatus, execArgs, completeArgs, cancelOk, submits, supplied,
          ub, crashed>>

Idle == [op |-> "idle", h |-> NULL, status |-> "none", pool |-> 0]
NoWork == [env |-> "NULL", execute |-> "NULL", complete |-> "NULL", data |-> NULL]
Returned(op, status) == [op |-> op, status |-> status]
NoArgs == [env |-> "none", status |-> "none", data |-> NULL]

Init ==
  /\ reqLive = {}
  /\ reqData = [h \in Handles |-> NULL]
  /\ awLive = {}
  /\ aw = [a \in Works |-> NoWork]
  /\ wstate = [h \in Handles |-> "none"]
  /\ reqLoop = [h \in Handles |-> EngineThread]
  /\ thread = [t \in Threads |-> Idle]
  /\ scopeDepth = 0
  /\ slot = NULL
  /\ ret = Returned("none", "none")
  /\ held = {}
  /\ nCreated = 0
  /\ queued = [h \in Handles |-> 0]
  /\ execCount = [h \in Handles |-> 0]
  /\ completeCount = [h \in Handles |-> 0]
  /\ lastStatus = [h \in Handles |-> "none"]
  /\ execArgs = [h \in Handles |-> NoArgs]
  /\ completeArgs = [h \in Handles |-> NoArgs]
  /\ cancelOk = [h \in Handles |-> FALSE]
  /\ submits = 0
  /\ supplied = [h \in Handles |-> NoWork]
  /\ ub = FALSE
  /\ crashed = FALSE

\* API calls are made by addon code on the engine thread: from the top level
\* or from inside a complete callback.
CallerRuns ==
  /\ ~crashed
  /\ thread[EngineThread].op \in {"idle", "complete"}

\* IOTJS_ALLOC: the allocator hands out the lowest free address
FirstFree(live) == CHOOSE a \in Works \ live : \A b \in Works \ live : a <= b

\* ------------------------------------------------- napi_create_async_work
\* mutant: the check of complete is missing
CreateArgsValid_NoCompleteCheck(execute, complete, result) ==
  /\ result # "NULL"
  /\ execute # "NULL"

CreateArgsValid(execute, complete, result) ==
  /\ result # "NULL"
  /\ execute # "NULL"
  /\ complete # "NULL"

\* mutant: the assignment of data is missing
StoredWork_NoData(env, execute, complete, data) ==
  [env |-> env, execute |-> execute, complete |-> complete, data |-> NULL]

\* the fields create writes into the iotjs_async_work_t
StoredWork(env, execute, complete, data) ==
  [env |-> env, execute |-> execute, complete |-> complete, data |-> data]

\* mutant: create hands the new request to the pool
napi_create_async_work_Queues(execute, complete, data, result) ==
  /\ CallerRuns
  /\ IF ~CreateArgsValid(execute, complete, result)
     THEN /\ ret' = Returned("create", "napi_invalid_arg")
          /\ UNCHANGED <<heapVars, slot, held, nCreated, supplied, wstate>>
     ELSE /\ nCreated < MaxCreates
          /\ LET h == nCreated + 1
                 a == FirstFree(awLive) IN
               /\ reqLive' = reqLive \cup {h}
               /\ awLive' = awLive \cup {a}
               /\ aw' = [aw EXCEPT ![a] = StoredWork(Env, execute, complete, data)]
               /\ reqData' = [reqData EXCEPT ![h] = a]
               /\ slot' = h
               /\ held' = held \cup {h}
               /\ supplied' = [supplied EXCEPT ![h] =
                     [env |-> Env, execute |-> execute, complete |-> complete,
                      data |-> data]]
               /\ wstate' = [wstate EXCEPT ![h] = "pending"]
          /\ nCreated' = nCreated + 1
          /\ ret' = Returned("create", "napi_ok")
  /\ submits' = 0
  /\ UNCHANGED <<reqLoop, thread, scopeDepth, queued, cancelOk, obsVars, ub, crashed>>

napi_create_async_work(execute, complete, data, result) ==
  /\ CallerRuns
  /\ IF ~CreateArgsValid(execute, complete, result)
     THEN /\ ret' = Returned("create", "napi_invalid_arg")
          /\ UNCHANGED <<heapVars, slot, held, nCreated, supplied>>
     ELSE /\ nCreated < MaxCreates
          /\ LET h == nCreated + 1
                 a == FirstFree(awLive) IN
               /\ reqLive' = reqLive \cup {h}
               /\ awLive' = awLive \cup {a}
               /\ aw' = [aw EXCEPT ![a] = StoredWork(Env, execute, complete, data)]
               /\ reqData' = [reqData EXCEPT ![h] = a]
               /\ slot' = h
               /\ held' = held \cup {h}
               /\ supplied' = [supplied EXCEPT ![h] =
                     [env |-> Env, execute |-> execute, complete |-> complete,
                      data |-> data]]
          /\ nCreated' = nCreated + 1
          /\ ret' = Returned("create", "napi_ok")
  /\ submits' = 0
  /\ UNCHANGED <<poolVars, thread, scopeDepth, queued, cancelOk, obsVars, ub, crashed>>

\* -------------------------------------------------------- the thread pool
\* uv_queue_work: 0 when the pool takes the request, an error code otherwise.
uv_queue_work(accept) == IF accept THEN 0 ELSE -1

\* uv_cancel: 0 when the request is still waiting for a worker, else UV_EBUSY.
uv_cancel(h) == IF wstate[h] = "pending" THEN 0 ELSE -16

\* the status the pool hands to the done slot of a request
PoolStatus(h) == IF wstate[h] = "cancelled" THEN UV_ECANCELED ELSE 0

\* A request is in flight from its submission until its done slot is entered.
InFlight(h) == wstate[h] \in {"pending", "running", "finished", "cancelled"}

\* The storage the run and done slots read has been released.
Freed(h) == h \notin reqLive \/ reqData[h] \notin awLive

\* what a read of the request can produce
ReadOutcomes(h) == IF Freed(h) THEN {"stale", "abort"} ELSE {"intact"}

\* -------------------------------------------------- napi_queue_async_work
\* mutant: the request is submitted to a loop that another thread runs
QueueLoop_OtherThread == EngineThread + 1

\* the loop of the iotjs environment, named by the thread that runs it
QueueLoop == EngineThread

\* mutant: a rejected submission is reported as a success
QueueResult_AlwaysOk(status) == "napi_ok"

QueueResult(status) == IF status # 0 THEN "napi_generic_failure" ELSE "napi_ok"

\* uv_queue_work is called once, whatever it returns
QueueSubmits(status) == 1

napi_queue_async_work(h, accept) ==
  /\ CallerRuns
  /\ h \in held
  /\ wstate[h] = "none"
  /\ queued[h] < MaxQueue
  /\ LET status == uv_queue_work(accept) IN
     /\ ret' = Returned("queue", QueueResult(status))
     /\ submits' = QueueSubmits(status)
     /\ IF status = 0
        THEN /\ wstate' = [wstate EXCEPT ![h] = "pending"]
             /\ reqLoop' = [reqLoop EXCEPT ![h] = QueueLoop]
             /\ queued' = [queued EXCEPT ![h] = @ + 1]
        ELSE UNCHANGED <<wstate, reqLoop, queued>>
  /\ UNCHANGED <<heapVars, thread, scopeDepth, slot, held, nCreated, cancelOk,
                 supplied, obsVars, ub, crashed>>

\* ------------------------------------------------- napi_cancel_async_work
\* mutant: the status of uv_cancel is ignored
CancelResult_AlwaysOk(status) == "napi_ok"

\* mutant: a refused cancellation is reported with the wrong status
CancelResult_Cancelled(status) == IF status # 0 THEN "napi_cancelled" ELSE "napi_ok"

CancelResult(status) == IF status # 0 THEN "napi_generic_failure" ELSE "napi_ok"

napi_cancel_async_work(h) ==
  /\ CallerRuns
  /\ h \in held
  /\ queued[h] > 0
  /\ LET status == uv_cancel(h) IN
     /\ ret' = Returned("cancel", CancelResult(status))
     /\ cancelOk' = [cancelOk EXCEPT ![h] = @ \/ CancelResult(status) = "napi_ok"]
     /\ wstate' = IF status = 0 THEN [wstate EXCEPT ![h] = "cancelled"] ELSE wstate
  /\ submits' = 0
  /\ UNCHANGED <<heapVars, reqLoop, thread, scopeDepth, slot, held, nCreated,
                 queued, supplied, obsVars, ub, crashed>>

\* ------------------------------------------------- napi_delete_async_work
\* mutant: free(async_work) is missing
DeleteFrees_LeakWork(h) == [req |-> {h}, work |-> {}]

\* mutant: every iotjs_async_work_t is freed, not only the request's own
DeleteFrees_AllWorks(h) == [req |-> {h}, work |-> awLive]

DeleteFrees(h) == [req |-> {h}, work |-> {reqData[h]}]

napi_delete_async_work(h) ==
  /\ CallerRuns
  /\ h \in held
  /\ awLive' = awLive \ DeleteFrees(h).work
  /\ reqLive' = reqLive \ DeleteFrees(h).req
  /\ held' = held \ {h}
  /\ ret' = Returned("delete", "napi_ok")
  /\ submits' = 0
  /\ UNCHANGED <<reqData, aw, poolVars, thread, scopeDepth, slot, nCreated,
                 queued, cancelOk, supplied, obsVars, ub, crashed>>

\* ------------------------------------------------------- iotjs_uv_work_cb
\* mutant: the run slot calls complete where it should call execute
iotjs_uv_work_cb_CallsComplete(t, h) ==
  /\ crashed' = crashed
  /\ thread' = [thread EXCEPT ![t] =
        [op |-> "complete", h |-> h, status |-> "napi_ok", pool |-> 0]]
  /\ UNCHANGED <<execCount, execArgs>>

\* mutant: execute is called with data alone
iotjs_uv_work_cb_DataOnly(t, h) ==
  /\ crashed' = crashed
  /\ execCount' = [execCount EXCEPT ![h] = @ + 1]
  /\ execArgs' = [execArgs EXCEPT ![h] =
        [env |-> "none", status |-> "none", data |-> aw[reqData[h]].data]]
  /\ thread' = [thread EXCEPT ![t] =
        [op |-> "execute", h |-> h, status |-> "none", pool |-> 0]]

\* the run slot, on thread t, for the request at h
iotjs_uv_work_cb(t, h) ==
  LET async_work == reqData[h] IN
  IF async_work = NULL
  THEN /\ crashed' = TRUE
       /\ UNCHANGED <<thread, execCount, execArgs>>
  ELSE /\ crashed' = crashed
       /\ IF aw[async_work].execute # "NULL"
          THEN /\ execCount' = [execCount EXCEPT ![h] = @ + 1]
               /\ execArgs' = [execArgs EXCEPT ![h] =
                     [env |-> aw[async_work].env, status |-> "none",
                      data |-> aw[async_work].data]]
               /\ thread' = [thread EXCEPT ![t] =
                     [op |-> "execute", h |-> h, status |-> "none", pool |-> 0]]
          ELSE /\ thread' = [thread EXCEPT ![t] =
                     [op |-> "run", h |-> h, status |-> "none", pool |-> 0]]
               /\ UNCHANGED <<execCount, execArgs>>

\* a worker takes a waiting request and enters its run slot
PoolRun(w, h) ==
  /\ ~crashed
  /\ wstate[h] = "pending"
  /\ thread[w] = Idle
  /\ \E outcome \in ReadOutcomes(h) :
       /\ ub' = (ub \/ outcome # "intact")
       /\ IF outcome = "abort"
          THEN /\ crashed' = TRUE
               /\ UNCHANGED <<wstate, thread, execCount, execArgs>>
          ELSE /\ wstate' = [wstate EXCEPT ![h] = "running"]
               /\ iotjs_uv_work_cb(w, h)
  /\ UNCHANGED <<heapVars, reqLoop, scopeDepth, callVars, completeCount,
                 lastStatus, completeArgs>>

\* the run slot returns and the pool posts the request to its loop
PoolRunReturns(w) ==
  /\ ~crashed
  /\ thread[w].op \in {"execute", "run"}
  /\ LET h == thread[w].h IN
     \E outcome \in IF h \in reqLive THEN {"intact"} ELSE {"stale", "abort"} :
       /\ ub' = (ub \/ outcome # "intact")
       /\ IF outcome = "abort"
          THEN /\ crashed' = TRUE
               /\ UNCHANGED <<wstate, thread>>
          ELSE /\ crashed' = crashed
               /\ wstate' = [wstate EXCEPT ![h] = "finished"]
               /\ thread' = [thread EXCEPT ![w] = Idle]
  /\ UNCHANGED <<heapVars, reqLoop, scopeDepth, callVars, obsVars>>

\* ------------------------------------------------- iotjs_uv_work_after_cb
\* mutant: the branch for status 0 is missing
CbStatus_NoOk(status) ==
  IF status = UV_ECANCELED THEN "napi_cancelled" ELSE "napi_generic_failure"

\* mutant: the branch for UV_ECANCELED is missing
CbStatus_NoCancelled(status) ==
  IF status = 0 THEN "napi_ok" ELSE "napi_generic_failure"

\* mutant: the test for a cancellation is inverted
CbStatus_CancelledInverted(status) ==
  IF status = UV_ECANCELED THEN "napi_ok" ELSE "napi_cancelled"

\* mutant: every non-zero status is taken for a cancellation
CbStatus_AllCancelled(status) ==
  IF status = 0 THEN "napi_ok" ELSE "napi_cancelled"

CbStatus(status) ==
  IF status = 0 THEN "napi_ok"
  ELSE IF status = UV_ECANCELED THEN "napi_cancelled"
  ELSE "napi_generic_failure"

\* the done slot, on thread t, for the request at h, up to the call of complete
iotjs_uv_work_after_cb(t, h, status) ==
  LET async_work == reqData[h]
      cb_status == CbStatus(status) IN
  IF async_work = NULL
  THEN /\ crashed' = TRUE
       /\ UNCHANGED <<thread, scopeDepth, completeCount, lastStatus, completeArgs>>
  ELSE /\ crashed' = crashed
       /\ IF aw[async_work].complete # "NULL"
          THEN /\ scopeDepth' = scopeDepth + 1
               /\ completeCount' = [completeCount EXCEPT ![h] = @ + 1]
               /\ lastStatus' = [lastStatus EXCEPT ![h] = cb_status]
               /\ completeArgs' = [completeArgs EXCEPT ![h] =
                     [env |-> aw[async_work].env, status |-> cb_status,
                      data |-> aw[async_work].data]]
               /\ thread' = [thread EXCEPT ![t] =
                     [op |-> "complete", h |-> h, status |-> cb_status,
                      pool |-> status]]
          ELSE UNCHANGED <<thread, scopeDepth, completeCount, lastStatus, completeArgs>>

\* mutant: the done slot reads the request again after complete has returned
AfterCompleteReads_Request(h) == {h}

\* the requests the done slot reads after complete has returned: none, it
\* only closes the scope it holds in a local
AfterCompleteReads(h) == {}

\* mutant: the handle scope is left open
ScopeAfterClose_Leaked(depth) == depth

\* jerryx_close_handle_scope
ScopeAfterClose(depth) == depth - 1

\* complete returns and the done slot closes its handle scope
CompleteReturns(t) ==
  /\ ~crashed
  /\ thread[t].op = "complete"
  /\ scopeDepth' = ScopeAfterClose(scopeDepth)
  /\ thread' = [thread EXCEPT ![t] = Idle]
  /\ ub' = (ub \/ \E h \in AfterCompleteReads(thread[t].h) : Freed(h))
  /\ UNCHANGED <<heapVars, poolVars, callVars, obsVars, crashed>>

\* the loop takes a posted request and enters its done slot
PoolDone(h) ==
  /\ ~crashed
  /\ wstate[h] \in {"finished", "cancelled"}
  /\ thread[reqLoop[h]] = Idle
  /\ \E outcome \in ReadOutcomes(h) :
       /\ ub' = (ub \/ outcome # "intact")
       /\ IF outcome = "abort"
          THEN /\ crashed' = TRUE
               /\ UNCHANGED <<wstate, thread, scopeDepth, completeCount,
                              lastStatus, completeArgs>>
          ELSE /\ wstate' = [wstate EXCEPT ![h] = "none"]
               /\ iotjs_uv_work_after_cb(reqLoop[h], h, PoolStatus(h))
  /\ UNCHANGED <<heapVars, reqLoop, callVars, execCount, execArgs>>

\* ---------------------------------------------------------- specifications
\* what the caller of the API owes: a request is queued once, and deleted
\* only when it is not in flight
QueueAllowed(h) == queued[h] = 0
DeleteAllowed(h) == ~InFlight(h)

CreateWith(datas) ==
  \E execute \in ExecuteArgs, complete \in CompleteArgs, data \in datas,
     result \in ResultArgs :
    napi_create_async_work(execute, complete, data, result)

Create == CreateWith(DataArgs)

Next ==
  \/ Create
  \/ \E h \in Handles, accept \in BOOLEAN :
       QueueAllowed(h) /\ napi_queue_async_work(h, accept)
  \/ \E h \in Handles : napi_cancel_async_work(h)
  \/ \E h \in Handles : DeleteAllowed(h) /\ napi_delete_async_work(h)
  \/ \E w \in Workers, h \in Handles : PoolRun(w, h)
  \/ \E w \in Workers : PoolRunReturns(w)
  \/ \E h \in Handles : PoolDone(h)
  \/ \E t \in Threads : CompleteReturns(t)

Spec == Init /\ [][Next]_vars

\* a caller that honours nothing: queues again, deletes in flight
NextAny ==
  \/ Create
  \/ \E h \in Handles, accept \in BOOLEAN : napi_queue_async_work(h, accept)
  \/ \E h \in Handles : napi_cancel_async_work(h)
  \/ \E h \in Handles : napi_delete_async_work(h)
  \/ \E w \in Workers, h \in Handles : PoolRun(w, h)
  \/ \E w \in Workers : PoolRunReturns(w)
  \/ \E h \in Handles : PoolDone(h)
  \/ \E t \in Threads : CompleteReturns(t)

SpecAny == Init /\ [][NextAny]_vars

\* the pool and the loop serve every request, and callbacks return
Fairness ==
  /\ \A h \in Handles : WF_vars(\E w \in Workers : PoolRun(w, h))
  /\ \A w \in Workers : WF_vars(PoolRunReturns(w))
  /\ \A h \in Handles : WF_vars(PoolDone(h))
  /\ \A t \in Threads : WF_vars(CompleteReturns(t))

\* Next with every request created on the same data: the scheduling of the
\* callbacks does not read it
NextFair ==
  \/ CreateWith({1})
  \/ \E h \in Handles, accept \in BOOLEAN :
       QueueAllowed(h) /\ napi_queue_async_work(h, accept)
  \/ \E h \in Handles : napi_cancel_async_work(h)
  \/ \E h \in Handles : DeleteAllowed(h) /\ napi_delete_async_work(h)
  \/ \E w \in Workers, h \in Handles : PoolRun(w, h)
  \/ \E w \in Workers : PoolRunReturns(w)
  \/ \E h \in Handles : PoolDone(h)
  \/ \E t \in Threads : CompleteReturns(t)

SpecFair == Init /\ [][NextFair]_vars /\ Fairness

\* the done slot entered with any pool status, on a request not in flight
DoneWith(h, status) ==
  /\ ~crashed
  /\ h \in held
  /\ wstate[h] = "none"
  /\ completeCount[h] = 0
  /\ thread[EngineThread] = Idle
  /\ iotjs_uv_work_after_cb(EngineThread, h, status)
  /\ UNCHANGED <<heapVars, poolVars, callVars, execCount, execArgs, ub>>

NextDispatch ==
  \/ Create
  \/ \E h \in Handles, status \in PoolStatusInputs : DoneWith(h, status)
  \/ \E t \in Threads : CompleteReturns(t)

SpecDispatch == Init /\ [][NextDispatch]_vars

TypeOK ==
  /\ reqLive \subseteq Handles
  /\ awLive \subseteq Works
  /\ nCreated \in 0..MaxCreates
  /\ scopeDepth \in 0..1
  /\ submits \in 0..1
  /\ ub \in BOOLEAN /\ crashed \in BOOLEAN

\* ------------------------------------------------------------------ claims
NullArg(execute, complete, result) ==
  execute = "NULL" \/ complete = "NULL" \/ result = "NULL"

\* a run slot of the request at h is executing
Executing(h) ==
  \E w \in Threads : thread[w].op \in {"execute", "run"} /\ thread[w].h = h

\* complete has been invoked once for h, with st, after n invocations of execute
Delivered(h, st, n) ==
  /\ completeCount[h] = 1
  /\ lastStatus[h] = st
  /\ execCount[h] = n

\* C1: a request that was queued and for which no cancel call succeeded gets
\* its complete invoked, eventually and exactly once, with napi_ok, after
\* exactly one invocation of execute.
C1_RunToCompletion ==
  /\ \A h \in Handles :
       [](~cancelOk[h] =>
            /\ completeCount[h] <= 1
            /\ execCount[h] <= 1
            /\ completeCount[h] = 1 => Delivered(h, "napi_ok", 1))
  /\ \A h \in Handles :
       (queued[h] > 0) ~> (cancelOk[h] \/ Delivered(h, "napi_ok", 1))

\* a request completed with napi_ok and never successfully cancelled
C1_Witness ==
  \E h \in Handles :
    /\ queued[h] = 1
    /\ ~cancelOk[h]
    /\ Delivered(h, "napi_ok", 1)

\* C2: a cancel call on a request that still waits for a worker returns
\* napi_ok; from then on execute is never invoked for that request, and its
\* complete is invoked, eventually and exactly once, with napi_cancelled.
C2_CancelBeforeRun ==
  /\ [][\A h \in Handles :
         (wstate[h] = "pending" /\ napi_cancel_async_work(h))
         => /\ ret' = Returned("cancel", "napi_ok")
            /\ cancelOk'[h]]_vars
  /\ \A h \in Handles :
       [](cancelOk[h] =>
            /\ execCount[h] = 0
            /\ ~Executing(h)
            /\ completeCount[h] <= 1
            /\ completeCount[h] = 1 => lastStatus[h] = "napi_cancelled")
  /\ \A h \in Handles :
       cancelOk[h] ~> Delivered(h, "napi_cancelled", 0)

\* a cancelled request whose complete has run with napi_cancelled
C2_Witness ==
  \E h \in Handles :
    /\ cancelOk[h]
    /\ Delivered(h, "napi_cancelled", 0)

\* C3: a cancel call on a request whose execute is running returns
\* napi_generic_failure and changes neither the pool's view of the request
\* nor what any thread is running; the request still gets its complete
\* invoked, eventually and exactly once, with napi_ok.
C3_CancelWhileRunning ==
  /\ [][\A h \in Handles :
         (wstate[h] = "running" /\ napi_cancel_async_work(h))
         => /\ ret' = Returned("cancel", "napi_generic_failure")
            /\ UNCHANGED <<wstate, thread, cancelOk, obsVars>>]_vars
  /\ \A h \in Handles :
       [](wstate[h] = "running" => (Executing(h) /\ completeCount[h] = 0))
  /\ \A h \in Handles :
       (wstate[h] = "running") ~> Delivered(h, "napi_ok", 1)

\* the only request is executing and the last call, a cancel, has failed
C3_Witness ==
  /\ nCreated = 1
  /\ wstate[1] = "running"
  /\ Executing(1)
  /\ ret = Returned("cancel", "napi_generic_failure")

\* C4: a create call with a null execute, a null complete or a null result
\* location returns napi_invalid_arg, allocates no uv_work_t and no
\* iotjs_async_work_t, and leaves the output slot as it was.
C4_CreateRejectsNull ==
  [][\A execute \in ExecuteArgs, complete \in CompleteArgs, data \in DataArgs,
       result \in ResultArgs :
       (NullArg(execute, complete, result)
          /\ napi_create_async_work(execute, complete, data, result))
       => /\ ret' = Returned("create", "napi_invalid_arg")
          /\ UNCHANGED <<reqLive, awLive, reqData, aw, slot, held, nCreated>>]_vars

\* a rejected create, made while a request is allocated
C4_Witness ==
  /\ ret = Returned("create", "napi_invalid_arg")
  /\ Cardinality(reqLive) = 1
  /\ Cardinality(awLive) = 1

\* C8: the live uv_work_t blocks are exactly the handles the caller holds,
\* each bound to a live iotjs_async_work_t of its own, and nothing else is
\* live: when every created handle has been deleted the heap is empty again.
C8_HandlesBalanced ==
  /\ reqLive = held
  /\ awLive = {reqData[h] : h \in held}
  /\ \A h \in held : reqData[h] # NULL
  /\ \A h1, h2 \in held : h1 # h2 => reqData[h1] # reqData[h2]
  /\ Cardinality(reqLive) = Cardinality(awLive)
  /\ Cardinality(reqLive) <= nCreated

\* every request went through create, queue, complete and delete
C8_Witness ==
  /\ nCreated = MaxCreates
  /\ \A h \in Handles : completeCount[h] = 1 /\ execCount[h] = 1
  /\ held = {}
  /\ reqLive = {} /\ awLive = {}
  /\ thread[EngineThread] = Idle

\* C10: the status handed to complete is napi_ok exactly for pool status 0,
\* napi_cancelled exactly for UV_ECANCELED and napi_generic_failure for every
\* other pool status, and never anything else.
C10_StatusMapping ==
  \A t \in Threads :
    thread[t].op = "complete" =>
      LET pool == thread[t].pool
          st == thread[t].status IN
      /\ st \in {"napi_ok", "napi_cancelled", "napi_generic_failure"}
      /\ (st = "napi_ok") <=> (pool = 0)
      /\ (st = "napi_cancelled") <=> (pool = UV_ECANCELED)
      /\ (st = "napi_generic_failure") <=> (pool \notin {0, UV_ECANCELED})
      /\ lastStatus[thread[t].h] = st
      /\ completeArgs[thread[t].h].status = st

\* complete entered with a pool status that is neither 0 nor UV_ECANCELED
C10_Witness ==
  /\ thread[EngineThread].op = "complete"
  /\ thread[EngineThread].pool = UV_ECANCELED + 1
  /\ thread[EngineThread].status = "napi_generic_failure"

\* C5: whatever calls the caller makes, execute and complete are each invoked
\* at most once for a request.
C5_AtMostOnce ==
  \A h \in Handles :
    ~ub => (execCount[h] <= 1 /\ completeCount[h] <= 1)

\* C6: complete is entered for a request only when no run slot of that request
\* is executing: either execute was invoked once and has returned, or the
\* request was cancelled and execute was never invoked; and while a request
\* waits for a worker or runs, its complete has not been invoked.
C6_DoneAfterRun ==
  /\ \A t \in Threads :
       thread[t].op = "complete" =>
         LET h == thread[t].h IN
         /\ ~Executing(h)
         /\ wstate[h] = "none"
         /\ IF cancelOk[h] THEN execCount[h] = 0 ELSE execCount[h] = 1
  /\ \A h \in Handles :
       /\ wstate[h] \in {"pending", "running"} => completeCount[h] = 0
       /\ completeCount[h] > 0 =>
            /\ ~Executing(h)
            /\ IF cancelOk[h] THEN execCount[h] = 0 ELSE execCount[h] = 1

\* complete running after execute returned, while another request executes
C6_Witness ==
  \E h \in Handles, g \in Handles :
    /\ h # g
    /\ thread[EngineThread].op = "complete"
    /\ thread[EngineThread].h = h
    /\ execCount[h] = 1
    /\ Executing(g)

\* C7: complete runs only on the engine thread, execute only on worker
\* threads, and at most one complete runs at a time.
C7_ThreadPlacement ==
  /\ \A t \in Threads :
       /\ thread[t].op = "complete" => t = EngineThread
       /\ thread[t].op = "execute" => t \in Workers
  /\ Cardinality({t \in Threads : thread[t].op = "complete"}) <= 1

\* the engine thread runs complete of one request while a worker runs
\* execute of another
C7_Witness ==
  \E w \in Workers, h \in Handles :
    /\ thread[EngineThread].op = "complete"
    /\ thread[w].op = "execute"
    /\ thread[w].h # thread[EngineThread].h
    /\ thread[w].h = h

\* C9: a request that is queued or executing has its uv_work_t and its
\* iotjs_async_work_t allocated, and no slot has read freed storage.
C9_NoInFlightFreed ==
  /\ \A h \in Handles : InFlight(h) => ~Freed(h)
  /\ ~ub

\* C11: a queue call whose submission the pool rejects returns
\* napi_generic_failure after one call of uv_queue_work, leaves the request
\* out of the pool and causes no callback; a queue call the pool accepts
\* returns napi_ok with the request waiting in the pool. A request no queue
\* call was accepted for is never in the pool and has no callback invoked.
C11_QueueRejected ==
  /\ [][\A h \in Handles :
          /\ napi_queue_async_work(h, FALSE)
               => /\ ret' = Returned("queue", "napi_generic_failure")
                  /\ submits' = 1
                  /\ UNCHANGED <<wstate, reqLoop, queued, thread, obsVars>>
          /\ napi_queue_async_work(h, TRUE)
               => /\ ret' = Returned("queue", "napi_ok")
                  /\ submits' = 1
                  /\ wstate'[h] = "pending"]_vars
  /\ [](\A h \in Handles :
          queued[h] = 0 => /\ wstate[h] = "none"
                           /\ execCount[h] = 0
                           /\ completeCount[h] = 0)

\* a rejected queue call on a request that was never accepted
C11_Witness ==
  /\ ret = Returned("queue", "napi_generic_failure")
  /\ submits = 1
  /\ held = {1}
  /\ queued[1] = 0
  /\ wstate[1] = "none"

\* the lifecycle state of the work item behind handle h
Life(h) ==
  IF h > nCreated THEN "None"
  ELSE IF h \notin held THEN "Deleted"
  ELSE IF wstate[h] = "pending" THEN "Queued"
  ELSE IF wstate[h] = "running" THEN "Executing"
  ELSE IF wstate[h] = "finished" THEN "Completed"
  ELSE IF wstate[h] = "cancelled" THEN "CancelledBeforeStart"
  ELSE IF queued[h] = 0 THEN "Created"
  ELSE IF completeCount[h] >= queued[h] THEN "CompleteCallbackInvoked"
  ELSE "DoneWithoutComplete"

\* the transitions of the lifecycle
LifeEdges ==
  { <<"None", "Created">>,
    <<"Created", "Queued">>,
    <<"Queued", "Executing">>,
    <<"Executing", "Completed">>,
    <<"Queued", "CancelledBeforeStart">>,
    <<"Completed", "CompleteCallbackInvoked">>,
    <<"CancelledBeforeStart", "CompleteCallbackInvoked">>,
    <<"CompleteCallbackInvoked", "Deleted">> }

\* C12: every step takes a work item along one transition of the lifecycle
\* Created, Queued, (Executing, Completed | CancelledBeforeStart),
\* CompleteCallbackInvoked, Deleted or leaves its state alone, so that no
\* state is skipped, CancelledBeforeStart is entered from Queued only, and
\* no state is entered again.
C12_Lifecycle ==
  [][\A h \in Handles :
       Life(h)' # Life(h) => <<Life(h), Life(h)'>> \in LifeEdges]_vars

\* C13: complete runs on the engine thread inside exactly one handle scope
\* opened by the done slot, and when the engine thread is not inside a call
\* of complete no handle scope opened by the done slot is left open.
C13_ScopeBalanced ==
  /\ \A t \in Threads : thread[t].op = "complete" => t = EngineThread
  /\ thread[EngineThread].op = "complete" => scopeDepth = 1
  /\ thread[EngineThread].op # "complete" => scopeDepth = 0

\* the done slot is inside complete for a second request, after the scope of
\* the first was closed
C13_Witness ==
  /\ completeCount[1] = 1
  /\ completeCount[2] = 1
  /\ thread[EngineThread].op = "complete"
  /\ scopeDepth = 1

\* C14: complete receives napi_cancelled for a request only after a cancel
\* call on it returned napi_ok, which happens only for a request whose
\* execute was not and will not be invoked; a request no cancel call
\* succeeded for never completes with napi_cancelled, and no API call returns
\* napi_cancelled itself.
C14_CancelledOnlyAfterCancel ==
  /\ \A h \in Handles :
       /\ lastStatus[h] = "napi_cancelled" => cancelOk[h]
       /\ cancelOk[h] => execCount[h] = 0 /\ ~Executing(h)
       /\ (~cancelOk[h] /\ completeCount[h] > 0) => lastStatus[h] = "napi_ok"
  /\ ret.status # "napi_cancelled"

\* one request completed with napi_cancelled after its cancel succeeded, and
\* another, whose cancel was refused, completed with napi_ok
C14_Witness ==
  /\ cancelOk[1] /\ lastStatus[1] = "napi_cancelled"
  /\ ~cancelOk[2] /\ lastStatus[2] = "napi_ok"
  /\ ret = Returned("cancel", "napi_generic_failure")

\* the request at h was queued and is through with its run: execute has
\* returned, or complete was invoked, or a cancel call succeeded
Finished(h) ==
  /\ queued[h] > 0
  /\ wstate[h] \in {"finished", "cancelled", "none"}

C16_CreateOnlyAllocates ==
  /\ [][\A execute \in ExecuteArgs, complete \in CompleteArgs,
          data \in DataArgs, result \in ResultArgs :
          (~NullArg(execute, complete, result)
             /\ napi_create_async_work(execute, complete, data, result))
          => /\ ret' = Returned("create", "napi_ok")
             /\ submits' = 0
             /\ \E h \in Handles : h = nCreated + 1 /\ Life(h)' = "Created"
             /\ UNCHANGED <<poolVars, thread, scopeDepth, obsVars, queued,
                            cancelOk>>]_vars
  /\ [](\A h \in Handles :
          (h \in held /\ queued[h] = 0)
            => /\ Life(h) = "Created"
               /\ wstate[h] = "none"
               /\ execCount[h] = 0 /\ completeCount[h] = 0
               /\ \A t \in Threads : thread[t].h # h)

\* a request still in Created after a later one was queued and completed
C16_Witness ==
  /\ nCreated = 2
  /\ Life(1) = "Created"
  /\ queued[2] = 1
  /\ execCount[2] = 1
  /\ completeCount[2] = 1

\* C17: execute is invoked with data alone and no environment; complete is
\* invoked with the environment, the status and data.
C17_ExecuteDataOnly ==
  \A h \in Handles :
    /\ execCount[h] > 0
         => execArgs[h] = [env |-> "none", status |-> "none",
                           data |-> supplied[h].data]
    /\ completeCount[h] > 0
         => completeArgs[h] = [env |-> supplied[h].env,
                               status |-> lastStatus[h],
                               data |-> supplied[h].data]

\* C17 (amended): execute is invoked with the environment of the work item
\* and data; complete is invoked with the environment, the status and data.
C17_CallbackArguments ==
  \A h \in Handles :
    /\ supplied[h].env \in {"NULL", Env}
    /\ execCount[h] > 0
         => execArgs[h] = [env |-> Env, status |-> "none",
                           data |-> supplied[h].data]
    /\ completeCount[h] > 0
         => /\ completeArgs[h] = [env |-> Env, status |-> lastStatus[h],
                                  data |-> supplied[h].data]
            /\ lastStatus[h] \in {"napi_ok", "napi_cancelled"}

\* execute ran with the environment and data, and complete followed with the
\* environment, napi_ok and data
C17_Witness ==
  /\ execCount[1] = 1
  /\ execArgs[1] = [env |-> Env, status |-> "none", data |-> 1]
  /\ completeCount[1] = 1
  /\ completeArgs[1] = [env |-> Env, status |-> "napi_ok", data |-> 1]

\* C18: the data execute and complete of a request are invoked with is the
\* data its create call was given, and as long as the caller holds the
\* request its stored environment, callbacks and data are the ones create
\* stored: no queue or cancel call and no run or done slot changes them.
C18_DataUntouched ==
  \A h \in Handles :
    /\ h \in held
         => /\ reqData[h] \in awLive
            /\ aw[reqData[h]] = supplied[h]
    /\ execCount[h] > 0 => execArgs[h].data = supplied[h].data
    /\ completeCount[h] > 0 => completeArgs[h].data = supplied[h].data

\* two requests created on different data, each run and completed on its own
C18_Witness ==
  /\ held = {1, 2}
  /\ supplied[1].data = 1 /\ supplied[2].data = NULL
  /\ execCount[1] = 1 /\ execArgs[1].data = 1
  /\ execCount[2] = 1 /\ execArgs[2].data = NULL
  /\ completeCount[1] = 1 /\ completeArgs[1].data = 1
  /\ completeCount[2] = 1 /\ completeArgs[2].data = NULL

\* C19: the done slot reads neither the uv_work_t nor the iotjs_async_work_t
\* once complete has been entered: when complete deletes its own request,
\* closing the scope reads no freed storage and nothing aborts, and the
\* request ends deleted with complete invoked exactly once.
C19_DeleteInsideComplete ==
  /\ ~ub
  /\ ~crashed
  /\ \A h \in Handles :
       (Life(h) = "Deleted" /\ queued[h] > 0)
         => /\ completeCount[h] = 1
            /\ wstate[h] = "none"
            /\ Freed(h)

\* complete of a request has deleted that request and has not returned yet
C19_Witness ==
  /\ thread[EngineThread].op = "complete"
  /\ thread[EngineThread].h = 1
  /\ ret = Returned("delete", "napi_ok")
  /\ Life(1) = "Deleted"
  /\ Freed(1)
  /\ nCreated = 1

\* what the program holds about the request at g: its lifecycle state, its
\* state in the pool, its invocation counts, the status and the arguments
\* delivered to its callbacks, and its storage
ItemView(g) ==
  [life |-> Life(g), pool |-> wstate[g], loop |-> reqLoop[g],
   executed |-> execCount[g], completed |-> completeCount[g],
   status |-> lastStatus[g], toDeliver |-> PoolStatus(g),
   cancelled |-> cancelOk[g],
   reqLive |-> g \in reqLive, workLive |-> reqData[g] \in awLive,
   work |-> IF reqData[g] = NULL THEN NoWork ELSE aw[reqData[g]]]

\* C20: a cancel call or a delete call on one request changes nothing about
\* any other request the caller holds: the other's lifecycle state, state in the pool,
\* invocation counts, delivered status and storage stay as they were.
C20_ItemsIndependent ==
  [][\A h \in Handles, g \in Handles :
       (h # g /\ g \in held
          /\ (napi_cancel_async_work(h) \/ napi_delete_async_work(h)))
         => ItemView(g)' = ItemView(g)]_vars

\* a cancel call on one request has just succeeded while the other request,
\* queued before that call, is being executed
C20_Witness ==
  /\ ret = Returned("cancel", "napi_ok")
  /\ Life(1) = "CancelledBeforeStart"
  /\ Life(2) = "Executing"
  /\ Executing(2)

====
